---- MODULE Spec2Model ----
(***************************************************************************)
(* A model of the LOCO client of src/main.rs: the 22-byte header codec,    *)
(* the packet assembler, and the two exchanges of main (get_booking_data   *)
(* over TLS, get_checkin_data over the handshake + secure envelope).       *)
(*                                                                         *)
(* Bytes are the integers 0..255, buffers are sequences of bytes, a Rust   *)
(* String is its UTF-8 byte sequence.  A call that can panic is modelled   *)
(* by a result record [ok, val]: ok = FALSE is the panic of an unwrap, of  *)
(* an arithmetic overflow or of a slice index out of range.                *)
(***************************************************************************)
EXTENDS Integers, Sequences, FiniteSets, TLC

VARIABLES
    overflow_checks,  \* the build: TRUE = debug (overflow panics), FALSE = release (wraps)
    cpc,              \* codec harness: "start", then the call made and how it ended
    req,              \* the RequestLocoHeader handed to create_loco_raw_header
    blen,             \* the body_length handed to create_loco_raw_header
    raw,              \* the 22 header bytes (bincode::serialize of RawLocoHeader, or from the wire)
    parsed,           \* the ResponseLocoHeader parse_loco_header returned
    body,             \* the Bson value handed to create_loco_packet
    pkt,              \* the Vec<u8> create_loco_packet returned
    kh,               \* cipher harness: the key, IVs, plaintext and buffers of one run
    pc,               \* where main stands: the await (or end) it has reached
    fault,            \* the panic message once pc = "panicked", "" before
    aes_key,          \* get_checkin_data: the session key, <<>> before it is drawn
    handshake_buffer, \* get_checkin_data: preamble ++ encrypted key
    request_buffer,   \* the packet create_loco_packet returned
    iv_key,           \* get_checkin_data: the IV of the request envelope
    secure_buffer,    \* get_checkin_data: the request envelope
    writes,           \* the calls of stream.write so far: [what, buf, n accepted]
    out,              \* the bytes the stream has accepted, in order
    inb,              \* the bytes that arrived from the peer and are not read yet
    eof,              \* the peer has closed its side
    peer,             \* the peer: [sent: it has started its reply, rest: bytes still to send, reply]
    header_buffer,    \* the header bytes read from the stream
    loco_header,      \* get_booking_data: the header parse_loco_header returned
    data_buffer,      \* the body (or ciphertext) bytes read from the stream
    decrypted_buffer, \* get_checkin_data: the decrypted reply
    response          \* the ResponseLocoPacket parse_loco_packet returned

codecVars == <<cpc, req, blen, raw, parsed, body, pkt>>
connVars == <<pc, fault, aes_key, handshake_buffer, request_buffer, iv_key, secure_buffer,
              writes, out, inb, eof, peer, header_buffer, loco_header, data_buffer,
              decrypted_buffer, response>>
vars == <<overflow_checks, codecVars, kh, connVars>>

----------------------------------------------------------------------------
(* Sizes fixed by the source *)

NameLen == 11        \* RawLocoHeader.method_name: [u8; 11]
HeaderSize == 22     \* 4 + 2 + 11 + 1 + 4, the header_buffer of get_booking_data
KeySize == 16        \* aes_key: [0; 16]
IvSize == 16         \* iv_key: [0; 16], LocoSecureHeader.iv_key
SecureHeaderSize == 20   \* the header_buffer of get_checkin_data: u32 + [u8; 16]
BlockSize == 16      \* the AES block, the segment of cfb128
PreambleSize == 12   \* LocoHandshakeHeader: three u32
ModulusBytes == 256  \* the embedded public key is RSA-2048: the encrypted key is 256 bytes
RsaEncryptType == 14 \* rsa_encrypt_type
AesEncryptType == 2  \* aes_encrypt_type

(* Bounds of the model *)

MaxNameLen == 12     \* method names of 0..MaxNameLen bytes are tried (one more than fits)
MaxElemBytes == 3    \* documents carry 0..MaxElemBytes bytes of elements
MaxPlainLen == 34    \* the cipher harness encrypts plaintexts of 0..MaxPlainLen bytes

----------------------------------------------------------------------------
(* Byte-level helpers *)

\* TLC's integers are 32-bit signed: the model draws u32 values from 0..2^31-1 and
\* never forms 2^32 or 2^64; wrap-arounds are computed without leaving that range.

\* n as u32, for 0 <= n < 2^31: n mod 2^32, computed on 16-bit halves
AsU32(n) == (n % 65536) + 65536 * ((n \div 65536) % 65536)

\* little-endian bytes of n in w bytes (bincode's fixed-width integer encoding)
LE(n, w) == [i \in 1..w |-> (n \div (256 ^ (i - 1))) % 256]

RECURSIVE FromLE(_)
FromLE(b) == IF b = <<>> THEN 0 ELSE Head(b) + 256 * FromLE(Tail(b))

Zeros(n) == [i \in 1..n |-> 0]

Slice(s, from, to) == SubSeq(s, from + 1, to)   \* the Rust range s[from..to]

RECURSIVE RemoveByte(_, _)
RemoveByte(s, b) ==
    IF s = <<>> THEN <<>>
    ELSE IF Head(s) = b THEN RemoveByte(Tail(s), b)
    ELSE <<Head(s)>> \o RemoveByte(Tail(s), b)

InRange(x, lo, hi) == lo <= x /\ x <= hi
Cont(x) == InRange(x, 128, 191)

\* String::from_utf8: is s well-formed UTF-8 (RFC 3629, as core::str validates it)
RECURSIVE IsUtf8(_)
IsUtf8(s) ==
    IF s = <<>> THEN TRUE
    ELSE LET b == s[1] n == Len(s) IN
      IF b <= 127 THEN IsUtf8(Tail(s))
      ELSE IF InRange(b, 194, 223)
        THEN n >= 2 /\ Cont(s[2]) /\ IsUtf8(SubSeq(s, 3, n))
      ELSE IF InRange(b, 224, 239)
        THEN /\ n >= 3
             /\ IF b = 224 THEN InRange(s[2], 160, 191)
                ELSE IF b = 237 THEN InRange(s[2], 128, 159)
                ELSE Cont(s[2])
             /\ Cont(s[3])
             /\ IsUtf8(SubSeq(s, 4, n))
      ELSE IF InRange(b, 240, 244)
        THEN /\ n >= 4
             /\ IF b = 240 THEN InRange(s[2], 144, 191)
                ELSE IF b = 244 THEN InRange(s[2], 128, 143)
                ELSE Cont(s[2])
             /\ Cont(s[3]) /\ Cont(s[4])
             /\ IsUtf8(SubSeq(s, 5, n))
      ELSE FALSE

Ok(v) == [ok |-> TRUE, val |-> v]
Panic == [ok |-> FALSE, val |-> <<>>]

----------------------------------------------------------------------------
(* Header codec *)

\* a RequestLocoHeader and a ResponseLocoHeader that hold nothing yet
NoHeader == [packet_id |-> 0, status_code |-> 0, method_name |-> <<>>, body_type |-> 0]
NoParsed == [packet_id |-> 0, status_code |-> 0, method_name |-> <<>>, body_type |-> 0,
             body_length |-> 0]

\* bincode::serialize(&RawLocoHeader): fields in declaration order, fixed width,
\* little-endian, the [u8; 11] array without a length prefix
SerializeRawHeader(h) ==
    LE(h.packet_id, 4) \o LE(h.status_code, 2) \o h.method_name
        \o <<h.body_type>> \o LE(h.body_length, 4)

\* bincode::deserialize::<RawLocoHeader>: fails on fewer than 22 bytes
DeserializeRawHeader(buf) ==
    IF Len(buf) < HeaderSize THEN Panic
    ELSE Ok([packet_id   |-> FromLE(Slice(buf, 0, 4)),
             status_code |-> FromLE(Slice(buf, 4, 6)),
             method_name |-> Slice(buf, 6, 6 + NameLen),
             body_type   |-> buf[7 + NameLen],
             body_length |-> FromLE(Slice(buf, 7 + NameLen, HeaderSize))])

\* a decode that forgets to strip the padding
ReplaceNulKeep(s) == s

\* .replace("\0", ""): every NUL of the string is removed, wherever it stands
ReplaceNul(s) == RemoveByte(s, 0)

\* a - b on usize in a release build (wrapping).  The result is below 2^31 when
\* a >= b; otherwise it is 2^64 - (b - a), far above any length or index of the
\* model: [wrapped |-> TRUE, val |-> d] stands for the usize 2^64 - d.
WrappingSub(a, b) ==
    IF a >= b THEN [wrapped |-> FALSE, val |-> a - b]
    ELSE [wrapped |-> TRUE, val |-> b - a]

\* u <= n for a usize u as WrappingSub returns it and a small n
UsizeAtMost(u, n) == ~u.wrapped /\ u.val <= n

\* the padding computed with a saturating subtraction: a long name gets no padding
\* and is then cut to 11 bytes
PadZerosSaturating(len, checks) ==
    IF len <= NameLen THEN Ok(Zeros(NameLen - len)) ELSE Ok(<<>>)

\* the zero padding &[0; 11][..(11 - name.len())]: the subtraction is on usize
PadZeros(len, checks) ==
    LET end == WrappingSub(NameLen, len) IN
    IF end.wrapped /\ checks THEN Panic              \* attempt to subtract with overflow
    ELSE IF ~UsizeAtMost(end, NameLen) THEN Panic    \* range end index out of range
    ELSE Ok(Zeros(end.val))

\* a header built without its body_length
create_loco_raw_header_NoLength(header, body_length, checks) ==
    LET pad == PadZeros(Len(header.method_name), checks) IN
    IF ~pad.ok THEN Panic
    ELSE Ok([packet_id   |-> header.packet_id,
             status_code |-> header.status_code,
             method_name |-> header.method_name \o pad.val,
             body_type   |-> header.body_type,
             body_length |-> 0])

create_loco_raw_header(header, body_length, checks) ==
    LET pad == PadZeros(Len(header.method_name), checks) IN
    IF ~pad.ok THEN Panic
    ELSE LET cat == header.method_name \o pad.val IN
         IF Len(cat) < NameLen THEN Panic            \* [..11] out of range
         ELSE Ok([packet_id   |-> header.packet_id,
                  status_code |-> header.status_code,
                  method_name |-> Slice(cat, 0, NameLen),
                  body_type   |-> header.body_type,
                  body_length |-> body_length])

parse_loco_header(hbuf) ==
    LET r == DeserializeRawHeader(hbuf) IN
    IF ~r.ok THEN Panic
    ELSE IF ~IsUtf8(r.val.method_name) THEN Panic    \* from_utf8(..).unwrap()
    ELSE Ok([packet_id   |-> r.val.packet_id,
             status_code |-> r.val.status_code,
             method_name |-> ReplaceNul(r.val.method_name),
             body_type   |-> r.val.body_type,
             body_length |-> r.val.body_length])

----------------------------------------------------------------------------
(* Body codec and packet assembler *)

\* A Bson value is a document (its element list kept as opaque bytes) or some
\* other variant.  bson::to_vec writes a document as int32 total length, the
\* element list, a terminating 0; it refuses a value that is not a document.
Document(elems) == [kind |-> "document", elems |-> elems]
NotADocument == [kind |-> "int32", elems |-> <<>>]

DocOverhead == 5     \* the int32 length prefix and the terminating zero byte

to_vec(b) ==
    IF b.kind # "document" THEN Panic
    ELSE Ok(LE(Len(b.elems) + DocOverhead, 4) \o b.elems \o <<0>>)

\* an assembler that writes the length of the whole packet into the header
create_loco_packet_TotalLength(header, b, checks) ==
    LET body_vec == to_vec(b) IN
    IF ~body_vec.ok THEN Panic
    ELSE LET raw_loco_header ==
                 create_loco_raw_header(header, HeaderSize + Len(body_vec.val), checks) IN
         IF ~raw_loco_header.ok THEN Panic
         ELSE Ok(SerializeRawHeader(raw_loco_header.val) \o body_vec.val)

create_loco_packet(header, b, checks) ==
    LET body_vec == to_vec(b) IN
    IF ~body_vec.ok THEN Panic
    ELSE LET raw_loco_header ==
                 create_loco_raw_header(header, AsU32(Len(body_vec.val)), checks) IN
         IF ~raw_loco_header.ok THEN Panic
         ELSE Ok(SerializeRawHeader(raw_loco_header.val) \o body_vec.val)

----------------------------------------------------------------------------
(* Secure channel: AES-128 in CFB mode with 128-bit segments (libaes) *)

RECURSIVE Xor(_, _)
Xor(a, b) ==
    IF a = 0 THEN b
    ELSE IF b = 0 THEN a
    ELSE ((a + b) % 2) + 2 * Xor(a \div 2, b \div 2)

XorBytes(x, y) == [i \in 1..Len(x) |-> Xor(x[i], y[i])]

\* The block cipher.  AES itself is not computed: it is stood for by a keyed
\* permutation of the 16-byte blocks (rotate the block by one byte, add the key
\* byte, substitute by an affine bijection of 0..255).  What the model keeps of
\* AES is that, for a fixed key, distinct blocks encrypt to distinct blocks.
SubByte(b) == (b * 7 + 3) % 256
EncryptBlock(key, block) ==
    [i \in 1..BlockSize |-> SubByte((block[(i % BlockSize) + 1] + key[i]) % 256)]

Min(a, b) == IF a <= b THEN a ELSE b

\* Cipher::cfb128_encrypt(iv, data): C_i = P_i xor E_k(C_{i-1}), C_0 = iv; the last,
\* partial segment uses the first bytes of the keystream block.  The output is as
\* long as the input.
RECURSIVE cfb128_encrypt(_, _, _)
cfb128_encrypt(key, iv, data) ==
    IF data = <<>> THEN <<>>
    ELSE LET n == Min(BlockSize, Len(data))
             ks == EncryptBlock(key, iv)
             c == XorBytes(SubSeq(data, 1, n), ks)
         IN IF n < BlockSize THEN c
            ELSE c \o cfb128_encrypt(key, c, SubSeq(data, n + 1, Len(data)))

\* a decrypt that chains on the plaintext instead of the ciphertext
RECURSIVE cfb128_decrypt_ChainPlain(_, _, _)
cfb128_decrypt_ChainPlain(key, iv, data) ==
    IF data = <<>> THEN <<>>
    ELSE LET n == Min(BlockSize, Len(data))
             ks == EncryptBlock(key, iv)
             q == XorBytes(SubSeq(data, 1, n), ks)
         IN IF n < BlockSize THEN q
            ELSE q \o cfb128_decrypt_ChainPlain(key, q, SubSeq(data, n + 1, Len(data)))

\* Cipher::cfb128_decrypt(iv, data): P_i = C_i xor E_k(C_{i-1})
RECURSIVE cfb128_decrypt(_, _, _)
cfb128_decrypt(key, iv, data) ==
    IF data = <<>> THEN <<>>
    ELSE LET n == Min(BlockSize, Len(data))
             ks == EncryptBlock(key, iv)
             c == SubSeq(data, 1, n)
         IN IF n < BlockSize THEN XorBytes(c, ks)
            ELSE XorBytes(c, ks) \o cfb128_decrypt(key, c, SubSeq(data, n + 1, Len(data)))

\* an envelope whose length field counts the ciphertext only
SecureEnvelope_NoIvInLength(key, iv, plaintext) ==
    LET encrypted_aes_data == cfb128_encrypt(key, iv, plaintext)
    IN LE(AsU32(Len(encrypted_aes_data)), 4) \o iv \o encrypted_aes_data

\* bincode::serialize(&LocoSecureHeader { data_length, iv_key }) ++ ciphertext
\* (lines 308-311)
SecureEnvelope(key, iv, plaintext) ==
    LET encrypted_aes_data == cfb128_encrypt(key, iv, plaintext)
        secure_data_length == AsU32(Len(encrypted_aes_data) + IvSize)
    IN LE(secure_data_length, 4) \o iv \o encrypted_aes_data

\* bytes.get_u32_le() as usize - 16 and vec![0; size] (lines 319-321): the
\* number of ciphertext bytes to read.  why names the panic.
EnvelopeSize(hbuf, checks) ==
    LET size == WrappingSub(FromLE(Slice(hbuf, 0, 4)), IvSize) IN
    IF size.wrapped /\ checks
      THEN [ok |-> FALSE, val |-> 0, why |-> "subtract with overflow"]
    ELSE IF size.wrapped
      THEN [ok |-> FALSE, val |-> 0, why |-> "capacity overflow"]   \* vec![0; 2^64 - d]
    ELSE [ok |-> TRUE, val |-> size.val, why |-> ""]

\* lines 316-324 on a buffer that holds everything the peer sent: read 20 bytes,
\* read size more, decrypt with the IV of the envelope
OpenEnvelope(key, envelope, checks) ==
    IF Len(envelope) < SecureHeaderSize THEN Panic           \* read_exact: early eof
    ELSE LET hdr == Slice(envelope, 0, SecureHeaderSize)
             size == EnvelopeSize(hdr, checks)
         IN IF ~size.ok THEN Panic
            ELSE IF Len(envelope) < SecureHeaderSize + size.val THEN Panic   \* early eof
            ELSE Ok(cfb128_decrypt(key, Slice(hdr, 4, SecureHeaderSize),
                        Slice(envelope, SecureHeaderSize, SecureHeaderSize + size.val)))

----------------------------------------------------------------------------
(* Body parsing *)

\* bson::from_slice: the bytes are one document: an int32 that is the length of
\* the whole buffer, the element list, a terminating zero byte
from_slice(dbuf) ==
    IF Len(dbuf) < DocOverhead THEN Panic
    ELSE IF FromLE(Slice(dbuf, 0, 4)) # Len(dbuf) THEN Panic
    ELSE IF dbuf[Len(dbuf)] # 0 THEN Panic
    ELSE Ok(Document(Slice(dbuf, 4, Len(dbuf) - 1)))

\* The element lists of the typed documents, kept as opaque bytes (one type tag
\* per field of the struct).  bson::from_bson::<T> succeeds on the document whose
\* element list is that of T and fails on every other one.
CheckinRequestElems == <<18, 2, 16, 2, 2, 2>>
BookingRequestElems == <<2, 2, 2>>
CheckinResponseElems == <<16, 2, 2, 16, 2, 2, 16, 16, 2, 2, 16>>
GetConfResElems == <<16, 3, 3, 3, 3, 3>>

from_bson(doc, shape) == IF doc.elems = shape THEN Ok(doc.elems) ELSE Panic

parse_loco_packet(hbuf, dbuf, shape) ==
    LET response_header == parse_loco_header(hbuf) IN
    IF ~response_header.ok THEN Panic
    ELSE LET doc == from_slice(dbuf) IN
         IF ~doc.ok THEN Panic
         ELSE LET b == from_bson(doc.val, shape) IN
              IF ~b.ok THEN Panic
              ELSE Ok([header |-> response_header.val, body |-> b.val])

----------------------------------------------------------------------------
(* Handshake *)

\* pub_key.encrypt(rng, OAEP<SHA-1>, aes_key): RSA is not computed.  The blob is
\* as long as the modulus, depends on the key and on the randomness of the
\* padding (seed), and the holder of the private key recovers the key from it.
RsaEncrypt(key, seed) ==
    [i \in 1..ModulusBytes |->
        IF i = 1 THEN seed
        ELSE IF i <= KeySize + 1 THEN (key[i - 1] + seed) % 256
        ELSE (seed + i) % 256]

RsaDecrypt(blob) == [i \in 1..KeySize |-> (blob[i + 1] + 256 - blob[1]) % 256]

\* a preamble whose data_length counts the preamble too
HandshakeBuffer_TotalLength(encrypted_aes_key) ==
    LE(AsU32(Len(encrypted_aes_key) + PreambleSize), 4) \o LE(RsaEncryptType, 4)
        \o LE(AesEncryptType, 4) \o encrypted_aes_key

\* bincode::serialize(&LocoHandshakeHeader {..}) ++ encrypted_aes_key (lines 283-284)
HandshakeBuffer(encrypted_aes_key) ==
    LE(AsU32(Len(encrypted_aes_key)), 4) \o LE(RsaEncryptType, 4) \o LE(AesEncryptType, 4)
        \o encrypted_aes_key

----------------------------------------------------------------------------
(* The stream *)

\* stream.write(buf) accepts some n of the bytes, 1 <= n <= len, and returns n;
\* the counts tried are the whole buffer, one byte, 12 bytes and all but one byte
AcceptedCounts(buf) ==
    {Len(buf)} \cup {n \in {1, PreambleSize, Len(buf) - 1} : 0 < n /\ n < Len(buf)}

NoResponse == [header |-> NoParsed, body |-> <<>>]
NoPeer == [sent |-> FALSE, rest |-> <<>>, reply |-> <<>>]

ConnIdle ==
    /\ pc = "idle"
    /\ fault = ""
    /\ aes_key = <<>>
    /\ handshake_buffer = <<>>
    /\ request_buffer = <<>>
    /\ iv_key = <<>>
    /\ secure_buffer = <<>>
    /\ writes = <<>>
    /\ out = <<>>
    /\ inb = <<>>
    /\ eof = FALSE
    /\ peer = NoPeer
    /\ header_buffer = <<>>
    /\ loco_header = NoParsed
    /\ data_buffer = <<>>
    /\ decrypted_buffer = <<>>
    /\ response = NoResponse

----------------------------------------------------------------------------
(* Inputs of the codec harness *)

CHECKIN == <<67, 72, 69, 67, 75, 73, 78>>
GETCONF == <<71, 69, 84, 67, 79, 78, 70>>
EAcute == <<195, 169>>                   \* a two-byte UTF-8 character

NameAlphabet == {0, 65}
Names ==
    UNION {[1..k -> NameAlphabet] : k \in 0..MaxNameLen} \cup {CHECKIN, GETCONF, EAcute}

\* <<packet_id, status_code, body_type, body_length>>
NumericCases ==
    { <<1, 0, 0, 27>>,
      <<258, 256, 1, 0>>,
      <<2147483647, 65535, 255, 2147483647>> }

\* 11-byte method-name fields as a peer may send them
WireFields ==
    [1..NameLen -> NameAlphabet]
        \cup {CHECKIN \o Zeros(4), EAcute \o Zeros(9), <<255>> \o Zeros(10),
              Zeros(10) \o <<195>>}

\* the inputs of create_loco_packet that are tried
PacketNames == {<<>>, CHECKIN, GETCONF, [i \in 1..NameLen |-> 65], [i \in 1..MaxNameLen |-> 65]}
ElemAlphabet == {1, 2}
Bodies ==
    {Document(e) : e \in UNION {[1..k -> ElemAlphabet] : k \in 0..MaxElemBytes}}
        \cup {NotADocument}

NoRun == [pc |-> "idle", key |-> <<>>, iv |-> <<>>, iv2 |-> <<>>, plain |-> <<>>,
          env |-> <<>>, env2 |-> <<>>, dec |-> <<>>]

CodecInit ==
    /\ overflow_checks \in BOOLEAN
    /\ cpc = "start"
    /\ req = NoHeader
    /\ blen = 0
    /\ raw = <<>>
    /\ parsed = NoParsed
    /\ body = NotADocument
    /\ pkt = <<>>
    /\ kh = NoRun
    /\ ConnIdle

\* a caller builds a header and serializes it (lines 227-228)
EncodeHeader ==
    /\ cpc = "start"
    /\ \E name \in Names, c \in NumericCases :
         LET h == [packet_id |-> c[1], status_code |-> c[2], method_name |-> name,
                   body_type |-> c[3]]
             r == create_loco_raw_header(h, c[4], overflow_checks)
         IN /\ req' = h
            /\ blen' = c[4]
            /\ IF r.ok THEN raw' = SerializeRawHeader(r.val) /\ cpc' = "encoded"
               ELSE raw' = <<>> /\ cpc' = "panicked"
    /\ UNCHANGED <<overflow_checks, kh, connVars, parsed, body, pkt>>

\* 22 header bytes arrive from the peer (line 263)
ReceiveHeader ==
    /\ cpc = "start"
    /\ \E f \in WireFields, c \in NumericCases :
         raw' = LE(c[1], 4) \o LE(c[2], 2) \o f \o <<c[3]>> \o LE(c[4], 4)
    /\ cpc' = "received"
    /\ UNCHANGED <<overflow_checks, kh, connVars, req, blen, parsed, body, pkt>>

\* parse_loco_header on the bytes at hand
DecodeHeader ==
    /\ cpc \in {"encoded", "received"}
    /\ LET r == parse_loco_header(raw) IN
         IF r.ok
         THEN /\ parsed' = r.val
              /\ cpc' = IF cpc = "encoded" THEN "decoded" ELSE "decoded_wire"
         ELSE /\ parsed' = NoParsed
              /\ cpc' = IF cpc = "encoded" THEN "panicked_decode" ELSE "panicked_decode_wire"
    /\ UNCHANGED <<overflow_checks, kh, connVars, req, blen, raw, body, pkt>>

\* a caller assembles a packet (lines 247-257, 289-302)
AssemblePacket ==
    /\ cpc = "start"
    /\ \E name \in PacketNames, c \in NumericCases, b \in Bodies :
         LET h == [packet_id |-> c[1], status_code |-> c[2], method_name |-> name,
                   body_type |-> c[3]]
             r == create_loco_packet(h, b, overflow_checks)
         IN /\ req' = h
            /\ body' = b
            /\ IF r.ok THEN pkt' = r.val /\ cpc' = "assembled"
               ELSE pkt' = <<>> /\ cpc' = "panicked_assemble"
    /\ UNCHANGED <<overflow_checks, kh, connVars, blen, raw, parsed>>

CodecNext == EncodeHeader \/ ReceiveHeader \/ DecodeHeader \/ AssemblePacket

SpecCodec == CodecInit /\ [][CodecNext]_vars

----------------------------------------------------------------------------
(* Cipher harness: the envelope code of get_checkin_data on chosen inputs *)

Keys == {[i \in 1..KeySize |-> 17], [i \in 1..KeySize |-> (i * 29) % 256]}
Ivs ==
    {Zeros(IvSize),
     [i \in 1..IvSize |-> IF i = IvSize THEN 1 ELSE 0],
     [i \in 1..IvSize |-> (i * 53 + 7) % 256]}
Plaintexts ==
    UNION {{[i \in 1..n |-> (i * 37) % 256], [i \in 1..n |-> 0]} : n \in 0..MaxPlainLen}

CipherInit ==
    /\ overflow_checks \in BOOLEAN
    /\ cpc = "idle"
    /\ req = NoHeader
    /\ blen = 0
    /\ raw = <<>>
    /\ parsed = NoParsed
    /\ body = NotADocument
    /\ pkt = <<>>
    /\ kh = [NoRun EXCEPT !.pc = "start"]
    /\ ConnIdle

\* lines 304-311 with a key, an IV and a plaintext; and again with a second IV
EncryptEnvelopes ==
    /\ kh.pc = "start"
    /\ \E k \in Keys, iv \in Ivs, iv2 \in Ivs, p \in Plaintexts :
         kh' = [pc |-> "encrypted", key |-> k, iv |-> iv, iv2 |-> iv2, plain |-> p,
                env |-> SecureEnvelope(k, iv, p), env2 |-> SecureEnvelope(k, iv2, p),
                dec |-> <<>>]
    /\ UNCHANGED <<overflow_checks, codecVars, connVars>>

\* lines 316-324 on the first envelope
DecryptEnvelope ==
    /\ kh.pc = "encrypted"
    /\ LET r == OpenEnvelope(kh.key, kh.env, overflow_checks) IN
         IF r.ok THEN kh' = [kh EXCEPT !.pc = "decrypted", !.dec = r.val]
         ELSE kh' = [kh EXCEPT !.pc = "panicked"]
    /\ UNCHANGED <<overflow_checks, codecVars, connVars>>

CipherNext == EncryptEnvelopes \/ DecryptEnvelope

SpecCipher == CipherInit /\ [][CipherNext]_vars

----------------------------------------------------------------------------
(* get_checkin_data: the secure-session exchange (lines 273-330) *)

Seeds == {0, 77}
SessionKeys == {[i \in 1..KeySize |-> 17], [i \in 1..KeySize |-> (i * 29) % 256]}
RequestIvs == {Zeros(IvSize), [i \in 1..IvSize |-> (i * 53 + 7) % 256]}

CheckinHeader == [packet_id |-> 1, status_code |-> 0, method_name |-> CHECKIN, body_type |-> 0]

Panics(why) == pc' = "panicked" /\ fault' = why

Init ==
    /\ overflow_checks \in BOOLEAN
    /\ cpc = "idle"
    /\ req = NoHeader
    /\ blen = 0
    /\ raw = <<>>
    /\ parsed = NoParsed
    /\ body = NotADocument
    /\ pkt = <<>>
    /\ kh = NoRun
    /\ pc = "b_connect"
    /\ fault = ""
    /\ aes_key = <<>>
    /\ handshake_buffer = <<>>
    /\ request_buffer = <<>>
    /\ iv_key = <<>>
    /\ secure_buffer = <<>>
    /\ writes = <<>>
    /\ out = <<>>
    /\ inb = <<>>
    /\ eof = FALSE
    /\ peer = NoPeer
    /\ header_buffer = <<>>
    /\ loco_header = NoParsed
    /\ data_buffer = <<>>
    /\ decrypted_buffer = <<>>
    /\ response = NoResponse

\* TcpStream::connect(..).await.unwrap() (line 274)
CheckinConnect ==
    /\ pc = "c_connect"
    /\ \/ pc' = "c_key" /\ fault' = fault
       \/ Panics("unwrap: connect failed")
    /\ UNCHANGED <<overflow_checks, codecVars, kh, loco_header, aes_key, handshake_buffer,
                   request_buffer, iv_key, secure_buffer, writes, out, inb, eof, peer,
                   header_buffer, data_buffer, decrypted_buffer, response>>

\* the answers of the two fallible calls of the key exchange that the code
\* unwraps: RsaPublicKey::from_public_key_der(&pem::parse(..)) (line 281) and
\* pub_key.encrypt (line 282).  The key is a constant of the program and the
\* message is 16 bytes, so the library is expected to answer Ok; the Err answers
\* are kept because the code has a path for them.
KeyExchangeOutcomes == {"ok", "unwrap: from_public_key_der", "unwrap: encrypt"}
HandshakeFaults == KeyExchangeOutcomes \ {"ok"}

\* a get_checkin_data that starts the key exchange again when it failed
CheckinKeyExchange_Retry ==
    /\ pc = "c_key"
    /\ \E key \in SessionKeys, seed \in Seeds, outcome \in KeyExchangeOutcomes :
         /\ aes_key' = key
         /\ IF outcome = "ok"
            THEN /\ handshake_buffer' = HandshakeBuffer(RsaEncrypt(key, seed))
                 /\ pc' = "c_handshake"
                 /\ fault' = fault
            ELSE /\ handshake_buffer' = handshake_buffer
                 /\ pc' = "c_key"
                 /\ fault' = outcome
    /\ UNCHANGED <<overflow_checks, codecVars, kh, loco_header, request_buffer, iv_key,
                   secure_buffer, writes, out, inb, eof, peer, header_buffer, data_buffer,
                   decrypted_buffer, response>>

\* draw the session key, load the public key, encrypt the session key and build
\* the handshake buffer (lines 275-284)
CheckinKeyExchange ==
    /\ pc = "c_key"
    /\ \E key \in SessionKeys, seed \in Seeds, outcome \in KeyExchangeOutcomes :
         /\ aes_key' = key
         /\ IF outcome = "ok"
            THEN /\ handshake_buffer' = HandshakeBuffer(RsaEncrypt(key, seed))
                 /\ pc' = "c_handshake"
                 /\ fault' = fault
            ELSE /\ handshake_buffer' = handshake_buffer
                 /\ Panics(outcome)
    /\ UNCHANGED <<overflow_checks, codecVars, kh, loco_header, request_buffer, iv_key,
                   secure_buffer, writes, out, inb, eof, peer, header_buffer, data_buffer,
                   decrypted_buffer, response>>

\* a get_checkin_data that never sends the handshake
CheckinHandshakeWrite_Skipped ==
    /\ pc = "c_handshake"
    /\ pc' = "c_handshake_flush"
    /\ UNCHANGED <<overflow_checks, codecVars, kh, loco_header, fault, aes_key, handshake_buffer,
                   request_buffer, iv_key, secure_buffer, writes, out, inb, eof, peer,
                   header_buffer, data_buffer, decrypted_buffer, response>>

\* stream.write(&handshake_buffer).await.unwrap() (line 286)
CheckinHandshakeWrite ==
    /\ pc = "c_handshake"
    /\ \/ \E n \in AcceptedCounts(handshake_buffer) :
            /\ writes' = Append(writes, [what |-> "handshake", buf |-> handshake_buffer,
                                         n |-> n])
            /\ out' = out \o SubSeq(handshake_buffer, 1, n)
            /\ pc' = "c_handshake_flush"
            /\ fault' = fault
       \/ /\ writes' = Append(writes, [what |-> "handshake", buf |-> handshake_buffer,
                                       n |-> 0])
          /\ out' = out
          /\ Panics("unwrap: write failed")
    /\ UNCHANGED <<overflow_checks, codecVars, kh, loco_header, aes_key, handshake_buffer,
                   request_buffer, iv_key, secure_buffer, inb, eof, peer, header_buffer,
                   data_buffer, decrypted_buffer, response>>

\* stream.flush().await.unwrap() (line 287)
CheckinHandshakeFlush ==
    /\ pc = "c_handshake_flush"
    /\ \/ pc' = "c_request" /\ fault' = fault
       \/ Panics("unwrap: flush failed")
    /\ UNCHANGED <<overflow_checks, codecVars, kh, loco_header, aes_key, handshake_buffer,
                   request_buffer, iv_key, secure_buffer, writes, out, inb, eof, peer,
                   header_buffer, data_buffer, decrypted_buffer, response>>

\* a get_checkin_data that draws a new key for its request envelope
CheckinRequestWrite_Rekey ==
    /\ pc = "c_request"
    /\ \E iv \in RequestIvs, key \in SessionKeys :
         LET packet == create_loco_packet(CheckinHeader, Document(CheckinRequestElems),
                                          overflow_checks)
             buf == SecureEnvelope(key, iv, packet.val)
         IN /\ packet.ok
            /\ aes_key' = key
            /\ request_buffer' = packet.val
            /\ iv_key' = iv
            /\ secure_buffer' = buf
            /\ writes' = Append(writes, [what |-> "envelope", buf |-> buf, n |-> Len(buf)])
            /\ out' = out \o buf
            /\ pc' = "c_request_flush"
            /\ fault' = fault
    /\ UNCHANGED <<overflow_checks, codecVars, kh, loco_header, handshake_buffer, inb, eof,
                   peer, header_buffer, data_buffer, decrypted_buffer, response>>

\* a get_checkin_data that writes its CHECKIN packet as on a TLS connection,
\* unwrapped
CheckinRequestWrite_Plain ==
    /\ pc = "c_request"
    /\ \E iv \in RequestIvs :
         LET packet == create_loco_packet(CheckinHeader, Document(CheckinRequestElems),
                                          overflow_checks)
         IN /\ packet.ok
            /\ request_buffer' = packet.val
            /\ iv_key' = iv
            /\ secure_buffer' = SecureEnvelope(aes_key, iv, packet.val)
            /\ writes' = Append(writes, [what |-> "packet", buf |-> packet.val,
                                         n |-> Len(packet.val)])
            /\ out' = out \o packet.val
            /\ pc' = "c_request_flush"
            /\ fault' = fault
    /\ UNCHANGED <<overflow_checks, codecVars, kh, loco_header, aes_key, handshake_buffer, inb, eof,
                   peer, header_buffer, data_buffer, decrypted_buffer, response>>

\* assemble the CHECKIN packet, draw the IV, encrypt, build the envelope and write
\* it (lines 289-313)
CheckinRequestWrite ==
    /\ pc = "c_request"
    /\ \E iv \in RequestIvs :
         LET packet == create_loco_packet(CheckinHeader, Document(CheckinRequestElems),
                                          overflow_checks)
             buf == SecureEnvelope(aes_key, iv, packet.val)
         IN IF ~packet.ok
            THEN /\ Panics("create_loco_packet")
                 /\ UNCHANGED <<request_buffer, iv_key, secure_buffer, writes, out>>
            ELSE /\ request_buffer' = packet.val
                 /\ iv_key' = iv
                 /\ secure_buffer' = buf
                 /\ \/ \E n \in AcceptedCounts(buf) :
                         /\ writes' = Append(writes, [what |-> "envelope", buf |-> buf, n |-> n])
                         /\ out' = out \o SubSeq(buf, 1, n)
                         /\ pc' = "c_request_flush"
                         /\ fault' = fault
                    \/ /\ writes' = Append(writes, [what |-> "envelope", buf |-> buf, n |-> 0])
                       /\ out' = out
                       /\ Panics("unwrap: write failed")
    /\ UNCHANGED <<overflow_checks, codecVars, kh, loco_header, aes_key, handshake_buffer, inb, eof,
                   peer, header_buffer, data_buffer, decrypted_buffer, response>>

\* stream.flush().await.unwrap() (line 314)
CheckinRequestFlush ==
    /\ pc = "c_request_flush"
    /\ \/ pc' = "c_read_header" /\ fault' = fault
       \/ Panics("unwrap: flush failed")
    /\ UNCHANGED <<overflow_checks, codecVars, kh, loco_header, aes_key, handshake_buffer,
                   request_buffer, iv_key, secure_buffer, writes, out, inb, eof, peer,
                   header_buffer, data_buffer, decrypted_buffer, response>>

\* a read of the envelope header that gives up while the peer is silent
CheckinReadHeader_Timeout ==
    /\ pc = "c_read_header"
    /\ \/ /\ Len(inb) >= SecureHeaderSize
          /\ header_buffer' = SubSeq(inb, 1, SecureHeaderSize)
          /\ inb' = SubSeq(inb, SecureHeaderSize + 1, Len(inb))
          /\ pc' = "c_read_data"
          /\ fault' = fault
       \/ /\ Len(inb) < SecureHeaderSize
          /\ header_buffer' = header_buffer
          /\ inb' = <<>>
          /\ Panics(IF eof THEN "unwrap: early eof" ELSE "unwrap: timed out")
    /\ UNCHANGED <<overflow_checks, codecVars, kh, loco_header, aes_key, handshake_buffer,
                   request_buffer, iv_key, secure_buffer, writes, out, eof, peer,
                   data_buffer, decrypted_buffer, response>>

\* stream.read_exact(&mut [0; 20]).await.unwrap() (lines 316-317): returns when 20
\* bytes have arrived, fails when the peer closes before that, waits otherwise
CheckinReadHeader ==
    /\ pc = "c_read_header"
    /\ \/ /\ Len(inb) >= SecureHeaderSize
          /\ header_buffer' = SubSeq(inb, 1, SecureHeaderSize)
          /\ inb' = SubSeq(inb, SecureHeaderSize + 1, Len(inb))
          /\ pc' = "c_read_data"
          /\ fault' = fault
       \/ /\ Len(inb) < SecureHeaderSize
          /\ eof
          /\ header_buffer' = header_buffer
          /\ inb' = <<>>
          /\ Panics("unwrap: early eof")
    /\ UNCHANGED <<overflow_checks, codecVars, kh, loco_header, aes_key, handshake_buffer,
                   request_buffer, iv_key, secure_buffer, writes, out, eof, peer,
                   data_buffer, decrypted_buffer, response>>

\* size = data_length - 16; vec![0; size]; read_exact(&mut data_buffer) (lines 319-322)
CheckinReadData ==
    /\ pc = "c_read_data"
    /\ LET size == EnvelopeSize(header_buffer, overflow_checks) IN
         \/ /\ ~size.ok
            /\ Panics(size.why)
            /\ UNCHANGED <<data_buffer, inb>>
         \/ /\ size.ok
            /\ Len(inb) >= size.val
            /\ data_buffer' = SubSeq(inb, 1, size.val)
            /\ inb' = SubSeq(inb, size.val + 1, Len(inb))
            /\ pc' = "c_parse"
            /\ fault' = fault
         \/ /\ size.ok
            /\ Len(inb) < size.val
            /\ eof
            /\ data_buffer' = data_buffer
            /\ inb' = <<>>
            /\ Panics("unwrap: early eof")
    /\ UNCHANGED <<overflow_checks, codecVars, kh, loco_header, aes_key, handshake_buffer,
                   request_buffer, iv_key, secure_buffer, writes, out, eof, peer,
                   header_buffer, decrypted_buffer, response>>

\* decrypt, split at 22, parse_loco_packet::<CheckinResponse> (lines 324-329)
CheckinParse ==
    /\ pc = "c_parse"
    /\ LET plain == cfb128_decrypt(aes_key, Slice(header_buffer, 4, SecureHeaderSize),
                                   data_buffer)
       IN /\ decrypted_buffer' = plain
          /\ IF Len(plain) < HeaderSize
             THEN /\ Panics("range end index out of range")     \* &decrypted_buffer[0..22]
                  /\ response' = response
             ELSE LET r == parse_loco_packet(Slice(plain, 0, HeaderSize),
                                             Slice(plain, HeaderSize, Len(plain)),
                                             CheckinResponseElems)
                  IN IF r.ok
                     THEN response' = r.val /\ pc' = "c_done" /\ fault' = fault
                     ELSE response' = response /\ Panics("unwrap: parse_loco_packet")
    /\ UNCHANGED <<overflow_checks, codecVars, kh, loco_header, aes_key, handshake_buffer,
                   request_buffer, iv_key, secure_buffer, writes, out, inb, eof, peer,
                   header_buffer, data_buffer>>

----------------------------------------------------------------------------
(* get_booking_data: the TLS exchange (lines 233-271) *)

GetConfHeader == [packet_id |-> 1, status_code |-> 0, method_name |-> GETCONF, body_type |-> 0]

\* TcpStream::connect, TlsConnector::new and the TLS handshake, each unwrapped
\* (lines 234-246)
BookingConnect ==
    /\ pc = "b_connect"
    /\ \/ pc' = "b_request" /\ fault' = fault
       \/ Panics("unwrap: connect failed")
    /\ UNCHANGED <<overflow_checks, codecVars, kh, loco_header, aes_key, handshake_buffer,
                   request_buffer, iv_key, secure_buffer, writes, out, inb, eof, peer,
                   header_buffer, data_buffer, decrypted_buffer, response>>

\* assemble the GETCONF packet and write it (lines 247-259)
BookingRequestWrite ==
    /\ pc = "b_request"
    /\ LET packet == create_loco_packet(GetConfHeader, Document(BookingRequestElems),
                                        overflow_checks)
       IN IF ~packet.ok
          THEN /\ Panics("create_loco_packet")
               /\ UNCHANGED <<request_buffer, writes, out>>
          ELSE /\ request_buffer' = packet.val
               /\ \/ \E n \in AcceptedCounts(packet.val) :
                       /\ writes' = Append(writes, [what |-> "packet", buf |-> packet.val,
                                                    n |-> n])
                       /\ out' = out \o SubSeq(packet.val, 1, n)
                       /\ pc' = "b_flush"
                       /\ fault' = fault
                  \/ /\ writes' = Append(writes, [what |-> "packet", buf |-> packet.val,
                                                  n |-> 0])
                     /\ out' = out
                     /\ Panics("unwrap: write failed")
    /\ UNCHANGED <<overflow_checks, codecVars, kh, loco_header, aes_key, handshake_buffer,
                   iv_key, secure_buffer, inb, eof, peer, header_buffer, data_buffer,
                   decrypted_buffer, response>>

\* stream.flush().await.unwrap() (line 260)
BookingFlush ==
    /\ pc = "b_flush"
    /\ \/ pc' = "b_read_header" /\ fault' = fault
       \/ Panics("unwrap: flush failed")
    /\ UNCHANGED <<overflow_checks, codecVars, kh, loco_header, aes_key, handshake_buffer,
                   request_buffer, iv_key, secure_buffer, writes, out, inb, eof, peer,
                   header_buffer, data_buffer, decrypted_buffer, response>>

\* read_exact(&mut [0; 22]) and parse_loco_header (lines 262-264)
BookingReadHeader ==
    /\ pc = "b_read_header"
    /\ \/ /\ Len(inb) >= HeaderSize
          /\ header_buffer' = SubSeq(inb, 1, HeaderSize)
          /\ inb' = SubSeq(inb, HeaderSize + 1, Len(inb))
          /\ LET h == parse_loco_header(SubSeq(inb, 1, HeaderSize)) IN
               IF h.ok THEN loco_header' = h.val /\ pc' = "b_read_body" /\ fault' = fault
               ELSE loco_header' = loco_header /\ Panics("unwrap: parse_loco_header")
       \/ /\ Len(inb) < HeaderSize
          /\ eof
          /\ header_buffer' = header_buffer
          /\ loco_header' = loco_header
          /\ inb' = <<>>
          /\ Panics("unwrap: early eof")
    /\ UNCHANGED <<overflow_checks, codecVars, kh, aes_key, handshake_buffer,
                   request_buffer, iv_key, secure_buffer, writes, out, eof, peer,
                   data_buffer, decrypted_buffer, response>>

\* vec![0; body_length] and read_exact(&mut data_buffer) (lines 266-267)
BookingReadBody ==
    /\ pc = "b_read_body"
    /\ \/ /\ Len(inb) >= loco_header.body_length
          /\ data_buffer' = SubSeq(inb, 1, loco_header.body_length)
          /\ inb' = SubSeq(inb, loco_header.body_length + 1, Len(inb))
          /\ pc' = "b_parse"
          /\ fault' = fault
       \/ /\ Len(inb) < loco_header.body_length
          /\ eof
          /\ data_buffer' = data_buffer
          /\ inb' = <<>>
          /\ Panics("unwrap: early eof")
    /\ UNCHANGED <<overflow_checks, codecVars, kh, loco_header, aes_key, handshake_buffer,
                   request_buffer, iv_key, secure_buffer, writes, out, eof, peer,
                   header_buffer, decrypted_buffer, response>>

\* a get_booking_data that hands on the header it decoded when the body does not
\* parse
BookingParse_HeaderOnly ==
    /\ pc = "b_parse"
    /\ LET r == parse_loco_packet(header_buffer, data_buffer, GetConfResElems) IN
         IF r.ok THEN response' = r.val
         ELSE response' = [header |-> loco_header, body |-> <<>>]
    /\ pc' = "b_done"
    /\ fault' = fault
    /\ UNCHANGED <<overflow_checks, codecVars, kh, loco_header, aes_key, handshake_buffer,
                   request_buffer, iv_key, secure_buffer, writes, out, inb, eof, peer,
                   header_buffer, data_buffer, decrypted_buffer>>

\* parse_loco_packet::<GetConfRes> and println! (lines 269-270)
BookingParse ==
    /\ pc = "b_parse"
    /\ LET r == parse_loco_packet(header_buffer, data_buffer, GetConfResElems) IN
         IF r.ok THEN response' = r.val /\ pc' = "b_done" /\ fault' = fault
         ELSE response' = response /\ Panics("unwrap: parse_loco_packet")
    /\ UNCHANGED <<overflow_checks, codecVars, kh, loco_header, aes_key, handshake_buffer,
                   request_buffer, iv_key, secure_buffer, writes, out, inb, eof, peer,
                   header_buffer, data_buffer, decrypted_buffer>>

\* get_booking_data returns: its stream and buffers are dropped, and main calls
\* get_checkin_data (lines 271, 334-335)
BookingReturn ==
    /\ pc = "b_done"
    /\ pc' = "c_connect"
    /\ request_buffer' = <<>>
    /\ writes' = <<>>
    /\ out' = <<>>
    /\ inb' = <<>>
    /\ eof' = FALSE
    /\ peer' = NoPeer
    /\ header_buffer' = <<>>
    /\ data_buffer' = <<>>
    /\ loco_header' = NoParsed
    /\ response' = NoResponse
    /\ UNCHANGED <<overflow_checks, codecVars, kh, fault, aes_key, handshake_buffer, iv_key,
                   secure_buffer, decrypted_buffer>>

\* headers and documents as a peer builds them
ReplyHeader(name, n) ==
    LE(1, 4) \o LE(0, 2) \o name \o <<0>> \o LE(n, 4)

ReplyDoc(elems) == to_vec(Document(elems)).val

\* what the peer of get_booking_data may send
BookingReplies ==
    LET good == ReplyDoc(GetConfResElems) IN
    { ReplyHeader(GETCONF \o Zeros(4), Len(good)) \o good,             \* a well-formed reply
      ReplyHeader(GETCONF \o Zeros(4), Len(good) + 7) \o good,         \* body_length too large
      ReplyHeader(GETCONF \o Zeros(4), Len(good) - 1) \o good,         \* body_length too small
      ReplyHeader(GETCONF \o Zeros(4), DocOverhead + 1) \o ReplyDoc(<<16>>),  \* other fields
      ReplyHeader(<<255>> \o Zeros(10), Len(good)) \o good,            \* name not UTF-8
      <<7, 0, 0>> }                                                    \* less than a header

----------------------------------------------------------------------------
(* The peers *)

\* the plaintexts a peer may put in its envelope
ReplyPackets ==
    LET good == ReplyDoc(CheckinResponseElems) IN
    { ReplyHeader(CHECKIN \o Zeros(4), Len(good)) \o good,             \* a well-formed reply
      ReplyHeader(CHECKIN \o Zeros(4), Len(good) + 7) \o good,         \* body_length too large
      ReplyHeader(CHECKIN \o Zeros(4), Len(good)) \o ReplyDoc(<<16>>), \* other fields
      ReplyHeader(<<255>> \o Zeros(10), Len(good)) \o good,            \* name not UTF-8
      SubSeq(ReplyHeader(CHECKIN \o Zeros(4), 0), 1, 10),              \* shorter than a header
      <<>> }

ReplyIvs == {Zeros(IvSize), [i \in 1..IvSize |-> (i * 11 + 3) % 256]}

\* what the peer may send once it holds the session key
Replies(key) ==
    {SecureEnvelope(key, iv, p) : iv \in ReplyIvs, p \in ReplyPackets}
      \cup {LE(d, 4) \o Zeros(IvSize) : d \in {0, IvSize - 1}}                \* data_length < 16
      \cup {LE(IvSize + HeaderSize + 9, 4) \o Zeros(IvSize)
              \o SubSeq(SecureEnvelope(key, Zeros(IvSize),
                    ReplyHeader(CHECKIN \o Zeros(4), 0)), SecureHeaderSize + 1,
                    SecureHeaderSize + HeaderSize)}                           \* declares 9 bytes too many
      \cup {<<7, 0, 0>>}                                                      \* less than an envelope header

InBooking == pc \in {"b_connect", "b_request", "b_flush", "b_read_header", "b_read_body",
                     "b_parse", "b_done"}
ReplyAwaited == {"b_flush", "b_read_header", "b_read_body",
                 "c_request_flush", "c_read_header", "c_read_data"}
Connected == {"b_request", "c_key", "c_handshake", "c_handshake_flush", "c_request"}
                 \cup ReplyAwaited

\* the peer sends its reply, whole or up to a cut
PeerSend ==
    /\ pc \in ReplyAwaited
    /\ ~peer.sent
    /\ ~eof
    /\ \E r \in (IF InBooking THEN BookingReplies ELSE Replies(aes_key)) :
         \E n \in {Len(r)} \cup {m \in {4, SecureHeaderSize, HeaderSize} : m < Len(r)} :
            /\ inb' = inb \o SubSeq(r, 1, n)
            /\ peer' = [sent |-> TRUE, rest |-> SubSeq(r, n + 1, Len(r)), reply |-> r]
    /\ UNCHANGED <<overflow_checks, codecVars, kh, loco_header, pc, fault, aes_key, handshake_buffer,
                   request_buffer, iv_key, secure_buffer, writes, out, eof, header_buffer,
                   data_buffer, decrypted_buffer, response>>

\* the peer sends what it held back
PeerSendRest ==
    /\ pc \in ReplyAwaited
    /\ peer.sent
    /\ peer.rest # <<>>
    /\ ~eof
    /\ inb' = inb \o peer.rest
    /\ peer' = [peer EXCEPT !.rest = <<>>]
    /\ UNCHANGED <<overflow_checks, codecVars, kh, loco_header, pc, fault, aes_key, handshake_buffer,
                   request_buffer, iv_key, secure_buffer, writes, out, eof, header_buffer,
                   data_buffer, decrypted_buffer, response>>

\* the peer closes the connection
PeerClose ==
    /\ pc \in Connected
    /\ ~eof
    /\ eof' = TRUE
    /\ UNCHANGED <<overflow_checks, codecVars, kh, loco_header, pc, fault, aes_key, handshake_buffer,
                   request_buffer, iv_key, secure_buffer, writes, out, inb, peer,
                   header_buffer, data_buffer, decrypted_buffer, response>>

Next ==
    \/ BookingConnect
    \/ BookingRequestWrite
    \/ BookingFlush
    \/ BookingReadHeader
    \/ BookingReadBody
    \/ BookingParse
    \/ BookingReturn
    \/ CheckinConnect
    \/ CheckinKeyExchange
    \/ CheckinHandshakeWrite
    \/ CheckinHandshakeFlush
    \/ CheckinRequestWrite
    \/ CheckinRequestFlush
    \/ CheckinReadHeader
    \/ CheckinReadData
    \/ CheckinParse
    \/ PeerSend
    \/ PeerSendRest
    \/ PeerClose

Spec == Init /\ [][Next]_vars

----------------------------------------------------------------------------
(* Claims about the header codec and the packet assembler, under SpecCodec *)

IsAscii(s) == \A i \in 1..Len(s) : s[i] <= 127
HasNul(s) == \E i \in 1..Len(s) : s[i] = 0
EncodeWasCalled == cpc \in {"encoded", "decoded", "panicked", "panicked_decode"}
ExpectedParsed ==
    [packet_id |-> req.packet_id, status_code |-> req.status_code,
     method_name |-> req.method_name, body_type |-> req.body_type, body_length |-> blen]
RoundTrips ==
    /\ cpc \notin {"panicked", "panicked_decode"}
    /\ Len(raw) = HeaderSize
    /\ cpc = "decoded" => parsed = ExpectedParsed

\* C1 as stated: every header whose method name is at most 11 ASCII bytes, with any
\* body length n, encodes to 22 bytes that decode to the same packet_id,
\* status_code, method_name and body_type, with body_length = n.
C1_RoundTripAnyAsciiName ==
    (EncodeWasCalled /\ Len(req.method_name) <= NameLen /\ IsAscii(req.method_name))
        => RoundTrips

\* C1 amended: the same, for method names of at most 11 ASCII bytes none of which
\* is the zero byte.
C1_RoundTripNoNul ==
    (EncodeWasCalled /\ Len(req.method_name) <= NameLen /\ IsAscii(req.method_name)
        /\ ~HasNul(req.method_name))
        => RoundTrips

C1_Witness ==
    /\ cpc = "decoded"
    /\ req.method_name = CHECKIN
    /\ blen = 2147483647
    /\ parsed = ExpectedParsed

\* C2: encoding a header whose method name is longer than 11 bytes is an error:
\* neither create_loco_raw_header nor create_loco_packet returns any bytes for it,
\* in a debug build or in a release build.
C2_LongNameIsError ==
    Len(req.method_name) > NameLen
        => /\ cpc \in {"panicked", "panicked_assemble"}
           /\ raw = <<>>
           /\ pkt = <<>>

C2_Witness ==
    /\ Len(req.method_name) > NameLen
    /\ cpc = "panicked"
    /\ ~overflow_checks

NameField == Slice(raw, 6, 6 + NameLen)
PaddedAsSpecified ==
    /\ cpc \in {"encoded", "decoded"}
    /\ Len(NameField) = NameLen
    /\ SubSeq(NameField, 1, Len(req.method_name)) = req.method_name
    /\ SubSeq(NameField, Len(req.method_name) + 1, NameLen)
           = Zeros(NameLen - Len(req.method_name))

\* C3 as stated: a method name of k <= 11 bytes is encoded as its k bytes followed
\* by 11 - k zero bytes, and decoding the field yields the original name.
C3_PaddingAnyName ==
    (EncodeWasCalled /\ Len(req.method_name) <= NameLen)
        => /\ PaddedAsSpecified
           /\ cpc = "decoded" => parsed.method_name = req.method_name

\* C3 amended: the field is the k name bytes followed by 11 - k zero bytes for
\* every name of k <= 11 bytes; decoding yields the original name when the name
\* holds no zero byte.
C3_PaddingNoNul ==
    (EncodeWasCalled /\ Len(req.method_name) <= NameLen)
        => /\ PaddedAsSpecified
           /\ (cpc = "decoded" /\ ~HasNul(req.method_name))
                 => parsed.method_name = req.method_name

C3_Witness ==
    /\ cpc = "decoded"
    /\ req.method_name = CHECKIN
    /\ NameField = CHECKIN \o Zeros(4)
    /\ parsed.method_name = CHECKIN

\* s without its trailing bytes b: the trim that section 3 of the spec describes
RECURSIVE StripTrailing(_, _)
StripTrailing(s, b) ==
    IF s = <<>> THEN <<>>
    ELSE IF s[Len(s)] = b THEN StripTrailing(SubSeq(s, 1, Len(s) - 1), b)
    ELSE s

\* C4: the decoded method name of a header received from the wire is the 11-byte
\* field with its trailing zero bytes removed; zero bytes before a non-zero byte
\* are kept.
C4_StripsOnlyTrailingZeros ==
    cpc = "decoded_wire" => parsed.method_name = StripTrailing(NameField, 0)

\* C5: create_loco_packet returns 22 header bytes followed by the encoded body, and
\* the body_length written in the header is the byte length of that body.
C5_PacketAssembly ==
    cpc = "assembled"
        => LET h == parse_loco_header(Slice(pkt, 0, HeaderSize))
               rest == Slice(pkt, HeaderSize, Len(pkt))
           IN /\ Len(pkt) >= HeaderSize
              /\ h.ok
              /\ h.val.body_length = Len(rest)
              /\ Len(pkt) = HeaderSize + h.val.body_length
              /\ rest = to_vec(body).val
              /\ h.val.packet_id = req.packet_id
              /\ h.val.method_name = req.method_name

C5_Witness ==
    /\ cpc = "assembled"
    /\ req.method_name = GETCONF
    /\ Len(body.elems) = MaxElemBytes
    /\ Len(pkt) = HeaderSize + DocOverhead + MaxElemBytes

----------------------------------------------------------------------------
(* Claims about the secure envelope as a function, under SpecCipher *)

Ciphertext(env) == Slice(env, SecureHeaderSize, Len(env))
Decrypts == kh.pc \notin {"panicked"} /\ (kh.pc = "decrypted" => kh.dec = kh.plain)

\* C10 as stated: decrypting an envelope with the key that made it and the IV it
\* carries returns the plaintext, and two encryptions of one plaintext under one
\* key with different IVs have different ciphertexts, for every key, plaintext
\* and IV.
C10_RoundTripAndDistinctAnyPlaintext ==
    kh.pc \in {"encrypted", "decrypted", "panicked"}
        => /\ Decrypts
           /\ kh.iv # kh.iv2 => Ciphertext(kh.env) # Ciphertext(kh.env2)

\* C10 amended: the round trip holds for every key, plaintext and IV; the two
\* ciphertexts differ when the plaintext is at least one 16-byte block long (as
\* every packet, of 22 bytes or more, is).
C10_RoundTripAndDistinctFullBlock ==
    kh.pc \in {"encrypted", "decrypted", "panicked"}
        => /\ Decrypts
           /\ (kh.iv # kh.iv2 /\ Len(kh.plain) >= BlockSize)
                 => Ciphertext(kh.env) # Ciphertext(kh.env2)

C10_Witness ==
    /\ kh.pc = "decrypted"
    /\ Len(kh.plain) > 2 * BlockSize
    /\ kh.dec = kh.plain
    /\ kh.iv # kh.iv2
    /\ Ciphertext(kh.env) # Ciphertext(kh.env2)
    /\ Ciphertext(kh.env) # kh.plain

----------------------------------------------------------------------------
(* Claims about get_checkin_data, under Spec.  "Written" is said of the buffer  *)
(* handed to stream.write: how many of its bytes the stream accepts is the      *)
(* subject of the claim about complete writes.                                  *)

WritesOf(what) == {i \in 1..Len(writes) : writes[i].what = what}
AfterHandshake ==
    pc \in {"c_handshake_flush", "c_request", "c_request_flush", "c_read_header",
             "c_read_data", "c_parse", "c_done"}

\* the bytes the stream accepted of the writes from the i-th on, in call order
RECURSIVE AcceptedInOrder(_)
AcceptedInOrder(i) ==
    IF i > Len(writes) THEN <<>>
    ELSE SubSeq(writes[i].buf, 1, writes[i].n) \o AcceptedInOrder(i + 1)

\* C6: in secure-session mode the handshake (preamble and encrypted key) is
\* written exactly once, as the first write of the connection, and no secure
\* envelope is written before it; on the stream no byte of the envelope precedes
\* a byte of the handshake.
C6_HandshakeOnceBeforeEnvelope ==
    /\ Cardinality(WritesOf("handshake")) <= 1
    /\ AfterHandshake => Cardinality(WritesOf("handshake")) = 1
    /\ \A i \in WritesOf("envelope") :
          /\ i > 1
          /\ writes[1].what = "handshake"
          /\ writes[1].buf = handshake_buffer
          /\ Len(handshake_buffer) = PreambleSize + ModulusBytes
          /\ RsaDecrypt(Slice(handshake_buffer, PreambleSize, Len(handshake_buffer))) = aes_key
    /\ out = AcceptedInOrder(1)

C6_Witness ==
    /\ pc = "c_read_header"
    /\ Len(writes) = 2
    /\ writes[1].what = "handshake"
    /\ writes[2].what = "envelope"

\* C7: every handshake written is a 12-byte preamble with rsa_encrypt_type = 14
\* and aes_encrypt_type = 2 whose data_length is the byte length of the encrypted
\* key blob that follows it.
C7_HandshakeStructure ==
    \A i \in WritesOf("handshake") :
       LET b == writes[i].buf IN
       /\ Len(b) >= PreambleSize
       /\ FromLE(Slice(b, 4, 8)) = 14
       /\ FromLE(Slice(b, 8, PreambleSize)) = 2
       /\ FromLE(Slice(b, 0, 4)) = Len(b) - PreambleSize
       /\ Len(b) - PreambleSize = ModulusBytes

C7_Witness ==
    /\ pc = "c_request"
    /\ WritesOf("handshake") = {1}
    /\ FromLE(Slice(writes[1].buf, 0, 4)) = ModulusBytes

\* C8: every secure envelope the client writes is a 4-byte data_length, the 16-byte
\* IV, then data_length - 16 bytes of ciphertext: data_length is the ciphertext
\* length plus 16.
C8_EnvelopeLength ==
    \A i \in WritesOf("envelope") :
       LET b == writes[i].buf
           ciphertext == Slice(b, SecureHeaderSize, Len(b))
       IN /\ Len(b) >= SecureHeaderSize
          /\ FromLE(Slice(b, 0, 4)) = Len(ciphertext) + 16
          /\ Slice(b, 4, SecureHeaderSize) = iv_key
          /\ Len(ciphertext) = Len(request_buffer)
          /\ Len(request_buffer) >= HeaderSize

C8_Witness ==
    /\ pc = "c_request_flush"
    /\ WritesOf("envelope") = {2}
    /\ Len(writes[2].buf) = SecureHeaderSize + HeaderSize + DocOverhead + Len(CheckinRequestElems)

\* the reply the peer chose declares a length that does not match its ciphertext,
\* declares less than 16, or carries a plaintext shorter than a header
Mismatched(r) ==
    \/ Len(r) < SecureHeaderSize
    \/ LET d == FromLE(Slice(r, 0, 4)) IN
         \/ d < IvSize
         \/ d - IvSize # Len(r) - SecureHeaderSize
         \/ d - IvSize < HeaderSize

CrashFaults == {"subtract with overflow", "capacity overflow", "range end index out of range"}

\* C9: when the reply envelope's declared data_length does not match the
\* ciphertext available (or is below 16, or the plaintext is shorter than a
\* header), the exchange fails with an error: it does not crash and does not
\* deliver a parsed packet.
C9_MismatchIsFramingError ==
    (peer.sent /\ Mismatched(peer.reply))
        => /\ pc # "c_done"
           /\ fault \notin CrashFaults

----------------------------------------------------------------------------
(* Claims about the two exchanges of main, under Spec *)

\* the IV the reply envelope carried: &header_buffer[4..20] (line 324)
ReplyIv == Slice(header_buffer, 4, SecureHeaderSize)

\* cfb128_decrypt has run on a reply envelope (line 324 has been passed)
InboundProcessed ==
    /\ aes_key # <<>>
    /\ \/ pc = "c_done"
       \/ pc = "panicked" /\ fault \in {"range end index out of range",
                                        "unwrap: parse_loco_packet"}

\* C11: within one secure session the outbound request envelope and the inbound
\* reply envelope are both processed under the one session key, and the IV of the
\* one is never the IV of the other.
C11_IvNonReuse ==
    InboundProcessed =>
        /\ secure_buffer = SecureEnvelope(aes_key, iv_key, request_buffer)
        /\ decrypted_buffer = cfb128_decrypt(aes_key, ReplyIv, data_buffer)
        /\ ReplyIv # iv_key

InCheckin == pc \in {"c_connect", "c_key", "c_handshake", "c_handshake_flush", "c_request",
                     "c_request_flush", "c_read_header", "c_read_data", "c_parse", "c_done"}

\* the buffer is one plain packet: a 22-byte header whose body_length counts the
\* bytes that follow it
IsPlainPacket(buf) ==
    /\ Len(buf) >= HeaderSize
    /\ LET h == parse_loco_header(Slice(buf, 0, HeaderSize)) IN
         h.ok /\ h.val.body_length = Len(buf) - HeaderSize

\* the buffer is a handshake: preamble, then the blob the preamble counts
IsHandshake(buf) ==
    /\ Len(buf) >= PreambleSize
    /\ FromLE(Slice(buf, 0, 4)) = Len(buf) - PreambleSize
    /\ FromLE(Slice(buf, 4, 8)) = RsaEncryptType
    /\ FromLE(Slice(buf, 8, PreambleSize)) = AesEncryptType

\* the buffer is a secure envelope that wraps one plain packet under the key
IsEnvelopeOf(buf, key) ==
    /\ Len(buf) >= SecureHeaderSize
    /\ FromLE(Slice(buf, 0, 4)) = Len(buf) - 4
    /\ IsPlainPacket(cfb128_decrypt(key, Slice(buf, 4, SecureHeaderSize),
                                    Slice(buf, SecureHeaderSize, Len(buf))))

\* a TLS-mode connection: every write is a plain packet, and the reply is read as
\* a 22-byte header and a body and parsed as it came
TlsShape ==
    /\ \A i \in 1..Len(writes) :
          /\ writes[i].what = "packet"
          /\ IsPlainPacket(writes[i].buf)
          /\ ~IsHandshake(writes[i].buf)
    /\ pc = "b_done" =>
          /\ Len(header_buffer) = HeaderSize
          /\ response = parse_loco_packet(header_buffer, data_buffer, GetConfResElems).val

\* a secure-session connection: the first write is the handshake, every later one
\* an envelope under the session key, and the reply is decrypted before it is parsed
SecureShape ==
    /\ \A i \in 1..Len(writes) :
          IF i = 1 THEN writes[i].what = "handshake" /\ IsHandshake(writes[i].buf)
          ELSE /\ writes[i].what = "envelope"
               /\ IsEnvelopeOf(writes[i].buf, aes_key)
    /\ pc = "c_done" =>
          /\ decrypted_buffer = cfb128_decrypt(aes_key, ReplyIv, data_buffer)
          /\ response = parse_loco_packet(Slice(decrypted_buffer, 0, HeaderSize),
                                          Slice(decrypted_buffer, HeaderSize,
                                                Len(decrypted_buffer)),
                                          CheckinResponseElems).val

\* C12: the TLS connection carries only plain packets (no handshake, no envelope,
\* the reply parsed as read); the secure-session connection carries its one
\* handshake and then only envelopes, and its reply is decrypted before it is
\* parsed; neither connection ever shows the other's shape.
C12_ModeSeparation ==
    /\ InBooking => TlsShape
    /\ InCheckin => SecureShape
    /\ pc = "panicked" => TlsShape \/ SecureShape

C12_Witness ==
    /\ pc = "c_done"
    /\ Len(writes) = 2
    /\ response # NoResponse
    /\ response.body = CheckinResponseElems

\* the writes of the connection that carry a request
RequestWrites == WritesOf("packet") \cup WritesOf("envelope")

\* the bytes parse_loco_packet was given as the body (lines 269, 326-328)
BodyBytesParsed ==
    IF pc = "b_done" THEN data_buffer
    ELSE Slice(decrypted_buffer, HeaderSize, Len(decrypted_buffer))

\* C13: on each connection one request is written, then the fixed-size header is
\* read, then the body, and only then is the body parsed: at most one request is
\* ever in flight, nothing is read before the request was written, and the body
\* that was parsed is exactly header.body_length bytes long.
C13_RequestThenResponse ==
    /\ Cardinality(RequestWrites) <= 1
    /\ header_buffer # <<>> => Cardinality(RequestWrites) = 1
    /\ data_buffer # <<>> => header_buffer # <<>>
    /\ response # NoResponse =>
          /\ pc \in {"b_done", "c_done"}
          /\ Len(BodyBytesParsed) = response.header.body_length

\* C14: whenever the secure-mode exchange completes with a parsed response, the
\* decrypted plaintext is a 22-byte header followed by a body, and the header's
\* body_length is the number of decrypted bytes that remain after the header.
C14_ReplyBodyLengthConsistent ==
    pc = "c_done" =>
        /\ Len(decrypted_buffer) >= HeaderSize
        /\ response.header = parse_loco_header(Slice(decrypted_buffer, 0, HeaderSize)).val
        /\ response.header.body_length = Len(decrypted_buffer) - HeaderSize

\* a response is delivered only by an exchange that ran to its end, and then both
\* its header and its typed body were decoded from the bytes of the reply
FullyParsed ==
    \/ /\ pc = "b_done"
       /\ response.header = parse_loco_header(header_buffer).val
       /\ response.body = GetConfResElems
       /\ from_slice(data_buffer) = Ok(Document(GetConfResElems))
    \/ /\ pc = "c_done"
       /\ Len(decrypted_buffer) >= HeaderSize
       /\ response.header = parse_loco_header(Slice(decrypted_buffer, 0, HeaderSize)).val
       /\ response.body = CheckinResponseElems
       /\ from_slice(BodyBytesParsed) = Ok(Document(CheckinResponseElems))

AllOrNothing ==
    /\ response # NoResponse => FullyParsed
    /\ pc \in {"b_done", "c_done"} => response # NoResponse /\ fault = ""
    /\ pc = "panicked" <=> fault # ""
    /\ pc = "panicked" => response = NoResponse

\* C15: an exchange ends with a fully parsed typed response (header and body both
\* decoded) or with a failure and nothing in between: a failed exchange delivers
\* no response, and after the failure nothing more is written to or read from
\* the connection.
C15_NoPartialSuccess ==
    /\ []AllOrNothing
    /\ [][pc = "panicked" =>
            UNCHANGED <<pc, fault, response, writes, out, inb, header_buffer, data_buffer,
                        decrypted_buffer>>]_vars

\* the header of the reply was decoded, its body was not: no response
C15_Witness ==
    /\ pc = "panicked"
    /\ fault = "unwrap: parse_loco_packet"
    /\ loco_header # NoParsed
    /\ response = NoResponse

\* one of the unwraps of lines 281-282 has panicked
HandshakeFailed == fault \in HandshakeFaults

\* C16: when loading the embedded public key or encrypting the session key fails,
\* the connection attempt is over: no handshake, envelope or packet has been or
\* is ever written, and the key exchange is not started again.
C16_NoHandshakeRetry ==
    /\ [](HandshakeFailed =>
            /\ pc = "panicked"
            /\ writes = <<>>
            /\ out = <<>>
            /\ handshake_buffer = <<>>
            /\ secure_buffer = <<>>)
    /\ [][HandshakeFailed =>
            UNCHANGED <<pc, fault, aes_key, handshake_buffer, secure_buffer, writes, out>>]_vars

C16_Witness ==
    /\ HandshakeFailed
    /\ pc = "panicked"
    /\ aes_key \in SessionKeys

\* the client stands in a read_exact whose bytes have not all arrived, on a stream
\* the peer has not closed (lines 263, 267, 317, 322)
Blocked ==
    /\ ~eof
    /\ \/ pc = "b_read_header" /\ Len(inb) < HeaderSize
       \/ pc = "b_read_body" /\ Len(inb) < loco_header.body_length
       \/ pc = "c_read_header" /\ Len(inb) < SecureHeaderSize
       \/ /\ pc = "c_read_data"
          /\ LET size == EnvelopeSize(header_buffer, overflow_checks) IN
               size.ok /\ Len(inb) < size.val

\* C17: while the reply has not arrived in full and the peer keeps the stream
\* open, the client stays in its header or body read: every step taken from such
\* a state is the peer's (bytes arriving, or the close), and the exchange neither
\* completes nor fails; the client stays blocked for as long as the peer is silent.
C17_NoTimeouts ==
    [][Blocked =>
         /\ pc' = pc
         /\ fault' = fault
         /\ response' = response
         /\ header_buffer' = header_buffer
         /\ data_buffer' = data_buffer
         /\ (inb' = inb /\ eof' = eof => Blocked')]_vars

\* the peer has sent a part of its reply and holds the rest back
C17_Witness ==
    /\ Blocked
    /\ pc = "c_read_data"
    /\ peer.sent
    /\ peer.rest # <<>>

\* the encrypted key blob of a handshake buffer
KeyBlob(buf) == Slice(buf, PreambleSize, Len(buf))

\* every use of a key on the secure connection is a use of aes_key
KeyUses ==
    /\ handshake_buffer # <<>> =>
          /\ aes_key \in SessionKeys
          /\ RsaDecrypt(KeyBlob(handshake_buffer)) = aes_key
    /\ \A i \in WritesOf("handshake") :
          /\ aes_key \in SessionKeys
          /\ RsaDecrypt(KeyBlob(writes[i].buf)) = aes_key
    /\ \A i \in WritesOf("envelope") :
          LET b == writes[i].buf IN
          Slice(b, SecureHeaderSize, Len(b))
              = cfb128_encrypt(aes_key, Slice(b, 4, SecureHeaderSize), request_buffer)
    /\ InboundProcessed =>
          decrypted_buffer = cfb128_decrypt(aes_key, ReplyIv, data_buffer)

\* C18: the session key is drawn once, before the handshake is built and sent,
\* and is never drawn again or changed; the key whose encryption the handshake
\* carries is the key that encrypts the request envelope and decrypts the reply.
C18_SessionKeyConsistency ==
    /\ []KeyUses
    /\ [][aes_key # <<>> => aes_key' = aes_key]_vars
    /\ [][aes_key = <<>> /\ aes_key' # <<>> =>
            writes = <<>> /\ writes' = <<>> /\ out' = <<>> /\ aes_key' \in SessionKeys]_vars

\* the exchange ran to its end: the key was sent, used for the request and used
\* for the reply
C18_Witness ==
    /\ pc = "c_done"
    /\ aes_key \in SessionKeys
    /\ WritesOf("handshake") = {1}
    /\ WritesOf("envelope") = {2}
    /\ decrypted_buffer # <<>>

\* the client has started to read the reply (lines 263 and 317 onwards)
ReadingBookingReply == pc \in {"b_read_header", "b_read_body", "b_parse", "b_done"}
ReadingCheckinReply == pc \in {"c_read_header", "c_read_data", "c_parse", "c_done"}

\* C19: in both modes, once the client reads the reply every byte of every buffer
\* it wrote (the request packet; the handshake buffer and the request envelope)
\* has been accepted by the stream, whatever each single write call accepted.
C19_CompleteWriteBeforeRead ==
    /\ ReadingBookingReply \/ ReadingCheckinReply =>
          \A i \in 1..Len(writes) : writes[i].n = Len(writes[i].buf)
    /\ ReadingBookingReply => out = request_buffer
    /\ ReadingCheckinReply => out = handshake_buffer \o secure_buffer

====
